---- MODULE Spec2Model ----
(***************************************************************************)
(* vpnctl.py: a controller for one NetworkManager VPN connection (class    *)
(* VpnConnection, driven through nmcli) and the command built on it (main, *)
(* with the server list fetched from a web page).                          *)
(*                                                                         *)
(* Text is a sequence of symbols; a symbol is one character or one         *)
(* indivisible word ("remote", "vpn1.example.com").  Every position where  *)
(* the program waits for the outside world (an nmcli process, the HTTP     *)
(* GET, a line of input, the sleep) is one step.                           *)
(*                                                                         *)
(* Spec     is the command: sys.exit(main()) for every argument vector.    *)
(* SpecApi  is one VpnConnection object whose methods a caller invokes     *)
(*          repeatedly, in any order.                                      *)
(***************************************************************************)
EXTENDS Integers, Sequences, FiniteSets, TLC

VARIABLES
    active,      \* connection manager: the connection is up
    vpnData,     \* connection manager: the vpn.data dictionary, <<key, value>> pairs
    pc,          \* position of the (single) thread
    stack,       \* return positions of the calls in progress
    flag,        \* argument only_if_disconnected / only_if_connected of the call entered
    key,         \* argument key of set_data_item / get_data_item
    value,       \* argument value of set_data_item
    connected,   \* value returned by is_connected
    retText,     \* value returned by get_remote_address
    exc,         \* the exception raised, [type, returncode]
    trace,       \* history: what the process did to the outside world, in order
    call,        \* SpecApi: the method invocation in progress or last finished
    prev,        \* SpecApi: the invocation before it, with how it ended
    nCalls,      \* SpecApi: invocations made so far
    args,        \* Spec: the parsed command line
    response,    \* Spec: what the HTTP GET produced
    servers,     \* Spec: the value returned by get_servers_list
    displayed,   \* Spec: the rows print_servers_list wrote
    lines,       \* Spec: the lines input() has returned
    server,      \* Spec: the value returned by get_chosen_server
    chosen,      \* Spec: server_address
    exitStatus,  \* Spec: exit status of the process, -1 while it runs
    mgr0         \* Spec: the manager's state when the process started

vars == <<active, vpnData, pc, stack, flag, key, value, connected, retText, exc,
          trace, call, prev, nCalls, args, response, servers, displayed, lines,
          server, chosen, exitStatus, mgr0>>

mgrVars  == <<active, vpnData>>
apiVars  == <<call, prev, nCalls>>
mainVars == <<args, response, servers, displayed, lines, server, chosen,
              exitStatus, mgr0>>

----------------------------------------------------------------------------
(* Bounds *)

\* SpecApi: how many method invocations one behaviour makes
MaxCalls == 3
\* Spec: how many lines input() can deliver before the stream ends
MaxInputs == 4

----------------------------------------------------------------------------
(* Program constants *)

DEFAULT_RESTART_DELAY_SECONDS == 1

\* width of the first column: len("Number")
first_column_width == Len(<<"N", "u", "m", "b", "e", "r">>)

\* exit codes nmcli ends with when it fails (4: activation failed, 10: no such
\* connection); 0 is success
ExitCodes == {4, 10}
ToolExit  == {0} \cup ExitCodes

\* exit status of an interpreter that ends on an uncaught exception
UncaughtExitStatus == 1

----------------------------------------------------------------------------
(* Text *)

Whitespace == {" ", "\n"}

REMOTE == <<"remote">>
PORT   == <<"port">>

\* ", " and " = ", the separators of the vpn.data text
EntrySep == <<",", " ">>
PairSep  == <<" ", "=", " ">>

StartsWith(s, p) ==
    /\ Len(p) <= Len(s)
    /\ SubSeq(s, 1, Len(p)) = p

\* str.strip(): whitespace removed at both ends
RECURSIVE LStrip(_)
LStrip(s) ==
    IF s # <<>> /\ Head(s) \in Whitespace THEN LStrip(Tail(s)) ELSE s

RECURSIVE RStrip(_)
RStrip(s) ==
    IF s # <<>> /\ s[Len(s)] \in Whitespace
    THEN RStrip(SubSeq(s, 1, Len(s) - 1))
    ELSE s

Strip(s) == RStrip(LStrip(s))

\* str.split(sep): the pieces between the occurrences of sep, left to right
RECURSIVE SplitFrom(_, _, _)
SplitFrom(s, sep, cur) ==
    IF s = <<>> THEN <<cur>>
    ELSE IF StartsWith(s, sep)
         THEN <<cur>> \o SplitFrom(SubSeq(s, Len(sep) + 1, Len(s)), sep, <<>>)
         ELSE SplitFrom(Tail(s), sep, Append(cur, Head(s)))

Split(s, sep) == SplitFrom(s, sep, <<>>)

RECURSIVE Join(_, _)
Join(parts, sep) ==
    IF parts = <<>> THEN <<>>
    ELSE IF Len(parts) = 1 THEN parts[1]
    ELSE parts[1] \o sep \o Join(Tail(parts), sep)

----------------------------------------------------------------------------
(* The connection manager, as nmcli shows it to the program *)

\* nmcli -g GENERAL.STATE con show NAME: the state of the active connection,
\* nothing when the connection is not active
GeneralState(isUp) == IF isUp THEN <<"activated", "\n">> ELSE <<>>

\* nmcli -g vpn.data con show NAME: "key1 = value1, key2 = value2"
VpnDataText(d) ==
    Join([i \in 1..Len(d) |-> d[i][1] \o PairSep \o d[i][2]], EntrySep) \o <<"\n">>

\* position of key k in dictionary d, 0 when absent
KeyIndex(d, k) ==
    IF \E i \in 1..Len(d) : d[i][1] = k
    THEN CHOOSE i \in 1..Len(d) : d[i][1] = k
    ELSE 0

\* nmcli con mod NAME +vpn.data "key=value": the argument is cut at its first
\* "=", and the entry is added or overwritten
ModVpnData(d, arg) ==
    LET cut == CHOOSE i \in 1..Len(arg) :
                   /\ arg[i] = "="
                   /\ \A j \in 1..(i - 1) : arg[j] # "="
        k   == SubSeq(arg, 1, cut - 1)
        v   == SubSeq(arg, cut + 1, Len(arg))
        at  == KeyIndex(d, k)
    IN  IF at = 0 THEN Append(d, <<k, v>>) ELSE [d EXCEPT ![at] = <<k, v>>]

----------------------------------------------------------------------------
(* Exceptions and history *)

NoException == [type |-> "None", returncode |-> 0]

CalledProcessError(rc) == [type |-> "CalledProcessError", returncode |-> rc]

Exception(t) == [type |-> t, returncode |-> 0]

\* one entry of the history: the operation, the exit code of the external tool
\* (0 unless it failed), the exception the step ended with ("" for none), what
\* the step produced, and the seconds it suspended the thread for
Ev(op, rc, err, val) == [op |-> op, rc |-> rc, err |-> err, val |-> val, dur |-> 0]

\* the entry of a completed time.sleep(seconds)
Slept(seconds) == [op |-> "sleep", rc |-> 0, err |-> "", val |-> "", dur |-> seconds]

ToolOps == {"query", "up", "down", "mod", "show"}

Failed(e) == e.rc # 0 \/ e.err # ""

Ops(t) == [i \in 1..Len(t) |-> t[i].op]

StateWord(b) == IF b THEN "connected" ELSE "disconnected"

----------------------------------------------------------------------------
(* Control *)

Call(entry, cont) ==
    /\ pc' = entry
    /\ stack' = <<cont>> \o stack

Return ==
    /\ pc' = Head(stack)
    /\ stack' = Tail(stack)

Raise(e) ==
    /\ pc' = "raised"
    /\ stack' = <<>>
    /\ exc' = e

Log(e) == trace' = Append(trace, e)

----------------------------------------------------------------------------
(* class VpnConnection *)

\* A stale variant of is_connected: answers from the value it returned last
\* time, without asking the manager.
is_connected_cached ==
    /\ pc = "is_connected"
    /\ Return
    /\ UNCHANGED <<mgrVars, flag, key, value, connected, retText, exc, trace,
                   apiVars, mainVars>>

is_connected ==
    /\ pc = "is_connected"
    /\ \E rc \in ToolExit :
          IF rc # 0
          THEN /\ Log(Ev("query", rc, "CalledProcessError", ""))
               /\ Raise(CalledProcessError(rc))
               /\ UNCHANGED connected
          ELSE LET command_output == GeneralState(active)
                   result == Len(command_output) > 0
               IN  /\ Log(Ev("query", 0, "", StateWord(result)))
                   /\ connected' = result
                   /\ Return
                   /\ UNCHANGED exc
    /\ UNCHANGED <<mgrVars, flag, key, value, retText, apiVars, mainVars>>

\* connect(only_if_disconnected): "not only_if_disconnected or ..." asks the
\* manager only when the flag is set
connect ==
    /\ pc = "connect"
    /\ IF ~flag
       THEN pc' = "connect_up" /\ UNCHANGED stack
       ELSE Call("is_connected", "connect_test")
    /\ UNCHANGED <<mgrVars, flag, key, value, connected, retText, exc, trace,
                   apiVars, mainVars>>

\* The test of connect with its sense inverted.
connect_test_inverted ==
    /\ pc = "connect_test"
    /\ IF connected
       THEN pc' = "connect_up" /\ UNCHANGED stack
       ELSE Return
    /\ UNCHANGED <<mgrVars, flag, key, value, connected, retText, exc, trace,
                   apiVars, mainVars>>

\* "... or not self.is_connected()"
connect_test ==
    /\ pc = "connect_test"
    /\ IF ~connected
       THEN pc' = "connect_up" /\ UNCHANGED stack
       ELSE Return
    /\ UNCHANGED <<mgrVars, flag, key, value, connected, retText, exc, trace,
                   apiVars, mainVars>>

\* nmcli con up NAME
connect_up ==
    /\ pc = "connect_up"
    /\ \E rc \in ToolExit :
          IF rc # 0
          THEN /\ Log(Ev("up", rc, "CalledProcessError", ""))
               /\ Raise(CalledProcessError(rc))
               /\ UNCHANGED active
          ELSE /\ Log(Ev("up", 0, "", ""))
               /\ active' = TRUE
               /\ Return
               /\ UNCHANGED exc
    /\ UNCHANGED <<vpnData, flag, key, value, connected, retText, apiVars, mainVars>>

\* disconnect(only_if_connected)
disconnect ==
    /\ pc = "disconnect"
    /\ IF ~flag
       THEN pc' = "disconnect_down" /\ UNCHANGED stack
       ELSE Call("is_connected", "disconnect_test")
    /\ UNCHANGED <<mgrVars, flag, key, value, connected, retText, exc, trace,
                   apiVars, mainVars>>

\* "... or self.is_connected()"
disconnect_test ==
    /\ pc = "disconnect_test"
    /\ IF connected
       THEN pc' = "disconnect_down" /\ UNCHANGED stack
       ELSE Return
    /\ UNCHANGED <<mgrVars, flag, key, value, connected, retText, exc, trace,
                   apiVars, mainVars>>

\* nmcli con down NAME
disconnect_down ==
    /\ pc = "disconnect_down"
    /\ \E rc \in ToolExit :
          IF rc # 0
          THEN /\ Log(Ev("down", rc, "CalledProcessError", ""))
               /\ Raise(CalledProcessError(rc))
               /\ UNCHANGED active
          ELSE /\ Log(Ev("down", 0, "", ""))
               /\ active' = FALSE
               /\ Return
               /\ UNCHANGED exc
    /\ UNCHANGED <<vpnData, flag, key, value, connected, retText, apiVars, mainVars>>

\* restart(): "if self.is_connected():"
restart ==
    /\ pc = "restart"
    /\ Call("is_connected", "restart_test")
    /\ UNCHANGED <<mgrVars, flag, key, value, connected, retText, exc, trace,
                   apiVars, mainVars>>

\* A restart that takes the connection down whatever the manager answered.
restart_test_always_down ==
    /\ pc = "restart_test"
    /\ flag' = FALSE
    /\ Call("disconnect", "restart_sleep")
    /\ UNCHANGED <<mgrVars, key, value, connected, retText, exc, trace,
                   apiVars, mainVars>>

\* connected: self.disconnect(); otherwise straight to self.connect()
restart_test ==
    /\ pc = "restart_test"
    /\ flag' = FALSE
    /\ IF connected
       THEN Call("disconnect", "restart_sleep")
       ELSE Call("connect", "restart_return")
    /\ UNCHANGED <<mgrVars, key, value, connected, retText, exc, trace,
                   apiVars, mainVars>>

\* A restart that reconnects without waiting.
restart_no_sleep ==
    /\ pc = "restart_sleep"
    /\ flag' = FALSE
    /\ Call("connect", "restart_return")
    /\ UNCHANGED <<mgrVars, key, value, connected, retText, exc, trace,
                   apiVars, mainVars>>

\* time.sleep(self._restart_delay_seconds), then self.connect()
restart_sleep ==
    /\ pc = "restart_sleep"
    /\ Log(Slept(DEFAULT_RESTART_DELAY_SECONDS))
    /\ flag' = FALSE
    /\ Call("connect", "restart_return")
    /\ UNCHANGED <<mgrVars, key, value, connected, retText, exc,
                   apiVars, mainVars>>

restart_return ==
    /\ pc = "restart_return"
    /\ Return
    /\ UNCHANGED <<mgrVars, flag, key, value, connected, retText, exc, trace,
                   apiVars, mainVars>>

\* set_remote_address(address): self.set_data_item("remote", address)
set_remote_address ==
    /\ pc = "set_remote_address"
    /\ key' = REMOTE
    /\ pc' = "set_data_item"
    /\ UNCHANGED <<mgrVars, stack, flag, value, connected, retText, exc, trace,
                   apiVars, mainVars>>

\* nmcli con mod NAME +vpn.data f"{key}={value}"
set_data_item ==
    /\ pc = "set_data_item"
    /\ \E rc \in ToolExit :
          IF rc # 0
          THEN /\ Log(Ev("mod", rc, "CalledProcessError", ""))
               /\ Raise(CalledProcessError(rc))
               /\ UNCHANGED vpnData
          ELSE /\ Log(Ev("mod", 0, "", ""))
               /\ vpnData' = ModVpnData(vpnData, key \o <<"=">> \o value)
               /\ Return
               /\ UNCHANGED exc
    /\ UNCHANGED <<active, flag, key, value, connected, retText, apiVars, mainVars>>

\* get_remote_address(): self.get_data_item("remote")
get_remote_address ==
    /\ pc = "get_remote_address"
    /\ key' = REMOTE
    /\ pc' = "get_data_item"
    /\ UNCHANGED <<mgrVars, stack, flag, value, connected, retText, exc, trace,
                   apiVars, mainVars>>

\* _get_data(): dict([entry.split(" = ") for entry in text.strip().split(", ")])
\* as the list of the split entries
get_data_entries(command_output) ==
    LET entries == Split(Strip(command_output), EntrySep)
    IN  [i \in 1..Len(entries) |-> Split(entries[i], PairSep)]

\* dict(list) takes only elements of length 2 (ValueError otherwise)
DictAccepts(pairs) == \A i \in 1..Len(pairs) : Len(pairs[i]) = 2

\* d[k] on dict(pairs): the last pair with key k
DictHas(pairs, k) == \E i \in 1..Len(pairs) : pairs[i][1] = k

DictGet(pairs, k) ==
    LET at == CHOOSE i \in 1..Len(pairs) :
                  /\ pairs[i][1] = k
                  /\ \A j \in (i + 1)..Len(pairs) : pairs[j][1] # k
    IN  pairs[at][2]

\* the names a function body of the module can use: those bound at module
\* level, and the function's own parameters
ModuleNames ==
    {"bs4", "requests", "sys", "subprocess", "os", "argparse", "time",
     "DEFAULT_SERVER_LIST_URL", "DEFAULT_CONNECTION_NAME",
     "DEFAULT_RESTART_DELAY_SECONDS", "VpnConnection", "parse_arguments",
     "get_servers_list", "print_servers_list", "get_chosen_server", "main"}

get_data_item_params == {"self", "key"}

\* the name that subscripts the dictionary in get_data_item
get_data_item_subscript == "item_key"

NameResolves(name, params) == name \in params \cup ModuleNames

\* get_data_item(key): self._get_data()[item_key]; the call is evaluated
\* first, the subscript after it
get_data_item ==
    /\ pc = "get_data_item"
    /\ \E rc \in ToolExit :
          IF rc # 0
          THEN /\ Log(Ev("show", rc, "CalledProcessError", ""))
               /\ Raise(CalledProcessError(rc))
               /\ UNCHANGED retText
          ELSE LET pairs == get_data_entries(VpnDataText(vpnData))
               IN  /\ Log(Ev("show", 0, "", ""))
                   /\ IF ~DictAccepts(pairs)
                      THEN Raise(Exception("ValueError")) /\ UNCHANGED retText
                      ELSE IF ~NameResolves(get_data_item_subscript, get_data_item_params)
                      THEN Raise(Exception("NameError")) /\ UNCHANGED retText
                      ELSE IF get_data_item_subscript # "key"
                      THEN Raise(Exception("TypeError")) /\ UNCHANGED retText
                      ELSE IF ~DictHas(pairs, key)
                      THEN Raise(Exception("KeyError")) /\ UNCHANGED retText
                      ELSE /\ retText' = DictGet(pairs, key)
                           /\ Return
                           /\ UNCHANGED exc
    /\ UNCHANGED <<mgrVars, flag, key, value, connected, apiVars, mainVars>>

----------------------------------------------------------------------------
(* The server list: the page, get_servers_list, print_servers_list *)

NoText == <<>>

\* the value None; no text is this symbol
None == <<"None">>

NoServer == [location |-> NoText, address |-> NoText]

\* nodes of the parsed page: a string, or a tag holding one string
TextNode(t) == [tag |-> "", text |-> t]
TagNode(name, t) == [tag |-> name, text |-> t]

\* a cell of the provider's first column: the flag, a separator, the location
LocationCell(loc) == <<TagNode("img", NoText), TextNode(<<" ">>), TextNode(loc)>>

GoodRow(loc, addr) == <<LocationCell(loc), <<TextNode(addr)>>>>

France  == GoodRow(<<" ", "F", "R", "\n">>, <<" ", "fr1.example.com", " ">>)
Germany == GoodRow(<<"D", "E", "U">>, <<"de1.example.com">>)

Page(rows) == [table |-> TRUE, tbody |-> TRUE, rows |-> rows]

NoPage == [table |-> FALSE, tbody |-> FALSE, rows |-> <<>>]

\* the pages a server can answer with: well-formed ones of two, one and no
\* rows, and one page for each way the expected structure can be missing
Pages ==
    { Page(<<France, Germany>>),
      Page(<<Germany>>),
      Page(<<>>),
      NoPage,
      [table |-> TRUE, tbody |-> FALSE, rows |-> <<>>],
      Page(<<France, <<LocationCell(<<"D", "E", "U">>)>>>>),
      Page(<<France, <<>>>>),
      Page(<<<<<<TextNode(<<"F", "R">>)>>, <<TextNode(<<"fr1.example.com">>)>>>>>>),
      Page(<<<<<<TagNode("img", NoText), TextNode(<<" ">>), TagNode("b", <<"F", "R">>)>>,
              <<TextNode(<<"fr1.example.com">>)>>>>>>),
      Page(<<<<LocationCell(<<"F", "R">>),
              <<TextNode(<<"fr1.example.com">>), TagNode("br", NoText)>>>>>>) }

\* status lines of a response: a success and a failure of the server
HTTP_OK == "200 OK"
HTTP_UNAVAILABLE == "503 Service Unavailable"

\* what requests.get can produce: no response at all (it raises), or a
\* response with a status and a body
Responses ==
    {[transport |-> "error", status |-> "", page |-> NoPage]}
    \cup {[transport |-> "ok", status |-> HTTP_OK, page |-> p] : p \in Pages}
    \cup {[transport |-> "ok", status |-> HTTP_UNAVAILABLE, page |-> p] :
             p \in {NoPage, Page(<<France, Germany>>)}}

NoResponse == [transport |-> "none", status |-> "", page |-> NoPage]

\* cell.string: the string of a cell with a single child, None otherwise
StringOf(cell) ==
    IF Len(cell) = 1 THEN cell[1].text ELSE None

\* the exception the loop body raises on row tr, "" when it raises none; the
\* location is read before the address
RowError(tr) ==
    IF Len(tr) < 1 THEN "IndexError"
    ELSE IF Len(tr[1]) < 3 THEN "IndexError"
    ELSE IF tr[1][3].tag # "" THEN "TypeError"
    ELSE IF Len(tr) < 2 THEN "IndexError"
    ELSE IF StringOf(tr[2]) = None THEN "AttributeError"
    ELSE ""

ServerOf(tr) ==
    [location |-> Strip(tr[1][3].text), address |-> Strip(StringOf(tr[2]))]

\* the body of get_servers_list after the GET: [err, servers]
ParsePage(page) ==
    IF ~page.table \/ ~page.tbody
    THEN [err |-> "AttributeError", servers |-> <<>>]
    ELSE IF \E i \in 1..Len(page.rows) : RowError(page.rows[i]) # ""
    THEN LET bad == CHOOSE i \in 1..Len(page.rows) :
                        /\ RowError(page.rows[i]) # ""
                        /\ \A j \in 1..(i - 1) : RowError(page.rows[j]) = ""
         IN  [err |-> RowError(page.rows[bad]), servers |-> <<>>]
    ELSE [err |-> "", servers |-> [i \in 1..Len(page.rows) |-> ServerOf(page.rows[i])]]

\* get_servers_list(server_list_url): requests.get, then the parse of
\* r.content; the status of the response is not looked at
get_servers_list ==
    /\ pc = "get_servers_list"
    /\ \E r \in Responses :
          /\ response' = r
          /\ IF r.transport # "ok"
             THEN /\ Log(Ev("fetch", 0, "ConnectionError", ""))
                  /\ Raise(Exception("ConnectionError"))
                  /\ UNCHANGED servers
             ELSE LET parsed == ParsePage(r.page)
                  IN  /\ trace' = trace \o <<Ev("fetch", 0, "", ""),
                                             Ev("parse", 0, parsed.err, "")>>
                      /\ IF parsed.err # ""
                         THEN Raise(Exception(parsed.err)) /\ UNCHANGED servers
                         ELSE /\ servers' = parsed.servers
                              /\ Return
                              /\ UNCHANGED exc
    /\ UNCHANGED <<mgrVars, flag, key, value, connected, retText, apiVars,
                   args, displayed, lines, server, chosen, exitStatus, mgr0>>

Digit(d) ==
    CASE d = 0 -> "0" [] d = 1 -> "1" [] d = 2 -> "2" [] d = 3 -> "3" [] d = 4 -> "4"
      [] d = 5 -> "5" [] d = 6 -> "6" [] d = 7 -> "7" [] d = 8 -> "8" [] d = 9 -> "9"

\* str(n), n >= 0
RECURSIVE Str(_)
Str(n) == IF n < 10 THEN <<Digit(n)>> ELSE Str(n \div 10) \o <<Digit(n % 10)>>

\* s.ljust(width)
Ljust(s, width) ==
    s \o [i \in 1..(IF Len(s) < width THEN width - Len(s) ELSE 0) |-> " "]

MaxOf(S) == CHOOSE m \in S : \A x \in S : x <= m

\* the lines print_servers_list writes: the header, then one per server
ServersTable(list) ==
    LET second_column_width == MaxOf({Len(list[i].location) : i \in 1..Len(list)})
    IN  <<[number   |-> Ljust(<<"N", "u", "m", "b", "e", "r">>, first_column_width),
           location |-> Ljust(<<"Location">>, second_column_width),
           address  |-> <<"Address">>]>>
        \o [i \in 1..Len(list) |->
               [number   |-> Ljust(Str((i - 1) + 1), first_column_width),
                location |-> Ljust(list[i].location, second_column_width),
                address  |-> list[i].address]]

\* print_servers_list(servers); max() of no lengths raises ValueError
print_servers_list ==
    /\ pc = "print_servers_list"
    /\ IF servers = <<>>
       THEN /\ Log(Ev("print", 0, "ValueError", "list"))
            /\ Raise(Exception("ValueError"))
            /\ UNCHANGED displayed
       ELSE /\ Log(Ev("print", 0, "", "list"))
            /\ displayed' = ServersTable(servers)
            /\ Return
            /\ UNCHANGED exc
    /\ UNCHANGED <<mgrVars, flag, key, value, connected, retText, apiVars,
                   args, response, servers, lines, server, chosen, exitStatus, mgr0>>

----------------------------------------------------------------------------
(* get_chosen_server *)

Digits == {"0", "1", "2", "3", "4", "5", "6", "7", "8", "9"}

DigitValue(c) ==
    CASE c = "0" -> 0 [] c = "1" -> 1 [] c = "2" -> 2 [] c = "3" -> 3 [] c = "4" -> 4
      [] c = "5" -> 5 [] c = "6" -> 6 [] c = "7" -> 7 [] c = "8" -> 8 [] c = "9" -> 9

RECURSIVE Decimal(_)
Decimal(ds) ==
    IF ds = <<>> THEN 0
    ELSE 10 * Decimal(SubSeq(ds, 1, Len(ds) - 1)) + DigitValue(ds[Len(ds)])

\* int(text) on text of digits, signs, blanks and letters: blanks around the
\* number are dropped, one sign may lead, one digit at least must follow;
\* [ok |-> FALSE] stands for ValueError
PyInt(text) ==
    LET t      == Strip(text)
        signed == t # <<>> /\ t[1] \in {"+", "-"}
        ds     == IF signed THEN Tail(t) ELSE t
    IN  IF ds # <<>> /\ \A i \in 1..Len(ds) : ds[i] \in Digits
        THEN [ok |-> TRUE,
              n  |-> IF signed /\ t[1] = "-" THEN 0 - Decimal(ds) ELSE Decimal(ds)]
        ELSE [ok |-> FALSE, n |-> 0]

\* the lines a user may type
InputLines ==
    { <<"a", "b", "c">>, <<"0">>, <<"1">>, <<"2">>, <<"5">>,
      <<"-", "1">>, <<" ", "2", " ">> }

\* A range test that lets the position one past the end through.
InRangeInclusive(server_number, length) ==
    0 <= server_number /\ server_number <= length

\* 0 <= server_number < len(servers)
InRange(server_number, length) ==
    0 <= server_number /\ server_number < length

\* list[i] of Python, positions counted from 0 and negative ones from the end
PyHasIndex(list, i) == (0 - Len(list)) <= i /\ i < Len(list)

PyItem(list, i) == IF i >= 0 THEN list[i + 1] ELSE list[Len(list) + i + 1]

\* one turn of the loop of get_chosen_server: the prompt and the line read,
\* then either the error message and the next turn, or the return
get_chosen_server ==
    /\ pc = "get_chosen_server"
    /\ \/ \* end of input: input() raises EOFError
          /\ Log(Ev("input", 0, "EOFError", ""))
          /\ Raise(Exception("EOFError"))
          /\ UNCHANGED <<lines, server>>
       \/ /\ Len(lines) < MaxInputs
          /\ \E line \in InputLines :
                LET parsed        == PyInt(line)
                    server_number == parsed.n - 1
                IN  /\ lines' = Append(lines, line)
                    /\ IF ~parsed.ok \/ ~InRange(server_number, Len(servers))
                       THEN /\ trace' = trace \o <<Ev("input", 0, "", ""),
                                                  Ev("print", 0, "", "invalid")>>
                            /\ UNCHANGED <<pc, stack, exc, server>>
                       ELSE IF ~PyHasIndex(servers, server_number)
                       THEN /\ Log(Ev("input", 0, "IndexError", ""))
                            /\ Raise(Exception("IndexError"))
                            /\ UNCHANGED server
                       ELSE /\ Log(Ev("input", 0, "", ""))
                            /\ server' = PyItem(servers, server_number)
                            /\ Return
                            /\ UNCHANGED exc
    /\ UNCHANGED <<mgrVars, flag, key, value, connected, retText, apiVars,
                   args, response, servers, displayed, chosen, exitStatus, mgr0>>

----------------------------------------------------------------------------
(* main *)

NoArgs == [disconnect |-> FALSE, list |-> FALSE, url |-> None, verbose |-> FALSE]

\* the argument vectors: -d, -l, -v each given or not, -u absent or an address
ArgSpace ==
    [disconnect : BOOLEAN, list : BOOLEAN, verbose : BOOLEAN,
     url : {None, <<"vpn1.example.com">>}]

\* what the manager holds for the connection when the command starts
MainInitialData ==
    { << <<REMOTE, <<"old.example.com">>>>, <<PORT, <<"1194">>>> >> }

\* A main that looks at -u before it looks at -l.
MainBranchUrlFirst(a) ==
    IF a.disconnect THEN "disconnect"
    ELSE IF a.url # None THEN "direct"
    ELSE IF a.list THEN "list"
    ELSE "interactive"

\* which part of main runs: the tests of main in their order
MainBranch(a) ==
    IF a.disconnect THEN "disconnect"
    ELSE IF a.list THEN "list"
    ELSE IF a.url # None THEN "direct"
    ELSE "interactive"

\* print(text) under "if arguments.verbose:"
VerbosePrint(verbose, text) ==
    IF verbose THEN <<Ev("print", 0, "", text)>> ELSE <<>>

\* main(), up to its first call; the statements that follow the call are the
\* positions left on the stack
main ==
    /\ pc = "main"
    /\ LET branch == MainBranch(args)
       IN  CASE branch = "disconnect" ->
                  /\ trace' = trace \o VerbosePrint(args.verbose, "turning_off")
                  /\ flag' = TRUE
                  /\ pc' = "disconnect"
                  /\ stack' = <<"main_return">>
                  /\ UNCHANGED <<args, chosen>>
             [] branch = "list" ->
                  /\ trace' = trace \o VerbosePrint(args.verbose, "fetching")
                  /\ pc' = "get_servers_list"
                  /\ stack' = <<"print_servers_list", "main_return">>
                  /\ UNCHANGED <<args, chosen, flag>>
             [] branch = "direct" ->
                  /\ chosen' = args.url
                  /\ pc' = "main_connect"
                  /\ UNCHANGED <<args, trace, stack, flag>>
             [] branch = "interactive" ->
                  /\ args' = [args EXCEPT !.verbose = TRUE]
                  /\ Log(Ev("print", 0, "", "fetching"))
                  /\ pc' = "get_servers_list"
                  /\ stack' = <<"print_servers_list", "get_chosen_server", "main_address">>
                  /\ UNCHANGED <<chosen, flag>>
    /\ UNCHANGED <<mgrVars, key, value, connected, retText, exc, apiVars,
                   response, servers, displayed, lines, server, exitStatus, mgr0>>

\* server_address = server["address"]
main_address ==
    /\ pc = "main_address"
    /\ chosen' = server.address
    /\ pc' = "main_connect"
    /\ UNCHANGED <<mgrVars, stack, flag, key, value, connected, retText, exc, trace,
                   apiVars, args, response, servers, displayed, lines, server,
                   exitStatus, mgr0>>

\* connection.set_remote_address(server_address); connection.restart()
main_connect ==
    /\ pc = "main_connect"
    /\ trace' = trace \o VerbosePrint(args.verbose, "connecting")
    /\ value' = chosen
    /\ pc' = "set_remote_address"
    /\ stack' = <<"restart", "main_connected">>
    /\ UNCHANGED <<mgrVars, flag, key, connected, retText, exc, apiVars, mainVars>>

main_connected ==
    /\ pc = "main_connected"
    /\ trace' = trace \o VerbosePrint(args.verbose, "connected")
    /\ pc' = "main_return"
    /\ UNCHANGED <<mgrVars, stack, flag, key, value, connected, retText, exc,
                   apiVars, mainVars>>

\* sys.exit(status): the exit status of the process
SysExit(status) == status % 256

\* An except clause that reports every failure of nmcli as 1.
except_return_generic(e) == 1

\* An except clause that swallows the failure.
except_return_zero(e) == 0

\* except subprocess.CalledProcessError as e: return e.returncode
except_return(e) == e.returncode

\* return 0
main_return ==
    /\ pc = "main_return"
    /\ exitStatus' = SysExit(0)
    /\ pc' = "exited"
    /\ UNCHANGED <<mgrVars, stack, flag, key, value, connected, retText, exc, trace,
                   apiVars, args, response, servers, displayed, lines, server,
                   chosen, mgr0>>

main_except ==
    /\ pc = "raised"
    /\ exc.type = "CalledProcessError"
    /\ exitStatus' = SysExit(except_return(exc))
    /\ pc' = "exited"
    /\ UNCHANGED <<mgrVars, stack, flag, key, value, connected, retText, exc, trace,
                   apiVars, args, response, servers, displayed, lines, server,
                   chosen, mgr0>>

\* any other exception leaves main and ends the interpreter
uncaught ==
    /\ pc = "raised"
    /\ exc.type # "CalledProcessError"
    /\ exitStatus' = UncaughtExitStatus
    /\ pc' = "exited"
    /\ UNCHANGED <<mgrVars, stack, flag, key, value, connected, retText, exc, trace,
                   apiVars, args, response, servers, displayed, lines, server,
                   chosen, mgr0>>

----------------------------------------------------------------------------
(* A caller of one VpnConnection object *)

Methods == {"connect", "disconnect", "restart", "set_remote_address",
            "get_remote_address"}

\* addresses a caller passes: two plain ones, one ending in a blank, and two
\* that hold a separator of the vpn.data text
Addresses ==
    { <<"vpn1.example.com">>,
      <<"10.0.0.2">>,
      <<"host", " ">>,
      <<"a", " ", "=", " ", "b">>,
      <<"a", ",", " ", "b">> }

\* what the manager holds for the connection when the caller starts
InitialData ==
    { <<>>,
      << <<PORT, <<"1194">>>> >>,
      << <<REMOTE, <<"old.example.com">>>>, <<PORT, <<"1194">>>> >> }

NoCall == [method |-> "none", flag |-> FALSE, address |-> NoText]

ApiCall ==
    /\ pc = "idle"
    /\ nCalls < MaxCalls
    /\ \E m \in Methods, f \in BOOLEAN, a \in Addresses \cup {NoText} :
          /\ f => m \in {"connect", "disconnect"}
          /\ (a # NoText) <=> (m = "set_remote_address")
          /\ call' = [method |-> m, flag |-> f, address |-> a]
          /\ flag' = f
          /\ value' = a
          /\ pc' = m
    /\ prev' = [method  |-> call.method, flag |-> call.flag,
                address |-> call.address, ok |-> exc.type = "None"]
    /\ nCalls' = nCalls + 1
    /\ stack' = <<"idle">>
    /\ trace' = <<>>
    /\ exc' = NoException
    /\ UNCHANGED <<mgrVars, key, connected, retText, mainVars>>

\* the exception reaches the caller
ApiCatch ==
    /\ pc = "raised"
    /\ pc' = "idle"
    /\ UNCHANGED <<mgrVars, stack, flag, key, value, connected, retText, exc,
                   trace, apiVars, mainVars>>

\* the steps of VpnConnection that main can reach (it never calls
\* connect(only_if_disconnected=True))
Controller ==
    \/ is_connected
    \/ connect \/ connect_up
    \/ disconnect \/ disconnect_test \/ disconnect_down
    \/ restart \/ restart_test \/ restart_sleep \/ restart_return
    \/ set_remote_address \/ set_data_item

InitApi ==
    /\ active \in BOOLEAN
    /\ vpnData \in InitialData
    /\ pc = "idle"
    /\ stack = <<>>
    /\ flag = FALSE
    /\ key = NoText
    /\ value = NoText
    /\ connected = FALSE
    /\ retText = NoText
    /\ exc = NoException
    /\ trace = <<>>
    /\ call = NoCall
    /\ prev = [method |-> "none", flag |-> FALSE, address |-> NoText, ok |-> TRUE]
    /\ nCalls = 0
    /\ args = NoArgs
    /\ response = NoResponse
    /\ servers = <<>>
    /\ displayed = <<>>
    /\ lines = <<>>
    /\ server = NoServer
    /\ chosen = NoText
    /\ exitStatus = -1
    /\ mgr0 = [active |-> active, vpnData |-> vpnData]

NextApi ==
    \/ ApiCall
    \/ ApiCatch
    \/ Controller
    \/ connect_test
    \/ get_remote_address
    \/ get_data_item

SpecApi == InitApi /\ [][NextApi]_vars

Init ==
    /\ active \in BOOLEAN
    /\ vpnData \in MainInitialData
    /\ pc = "main"
    /\ stack = <<>>
    /\ flag = FALSE
    /\ key = NoText
    /\ value = NoText
    /\ connected = FALSE
    /\ retText = NoText
    /\ exc = NoException
    /\ trace = <<>>
    /\ call = NoCall
    /\ prev = [method |-> "none", flag |-> FALSE, address |-> NoText, ok |-> TRUE]
    /\ nCalls = 0
    /\ args \in ArgSpace
    /\ response = NoResponse
    /\ servers = <<>>
    /\ displayed = <<>>
    /\ lines = <<>>
    /\ server = NoServer
    /\ chosen = NoText
    /\ exitStatus = -1
    /\ mgr0 = [active |-> active, vpnData |-> vpnData]

Next ==
    \/ main
    \/ get_servers_list
    \/ print_servers_list
    \/ get_chosen_server
    \/ main_address
    \/ main_connect
    \/ main_connected
    \/ main_return
    \/ main_except
    \/ uncaught
    \/ Controller

Spec == Init /\ [][Next]_vars

----------------------------------------------------------------------------
(* Properties of the VpnConnection object (SpecApi) *)

IsPrefix(s, t) == Len(s) <= Len(t) /\ SubSeq(t, 1, Len(s)) = s

Last(t) == t[Len(t)]

\* the method invocation has ended, by return or by exception
Finished == pc = "idle" /\ call.method # "none"

ReturnedNormally == Finished /\ exc.type = "None"

\* the state query that opens the invocation succeeded and reported `word`
FirstQueryReports(word) ==
    /\ Len(trace) >= 1
    /\ trace[1].op = "query"
    /\ trace[1].rc = 0
    /\ trace[1].val = word

\* every effect but the last one completed without failure
OnlyLastMayFail(t) == \A i \in 1..(Len(t) - 1) : ~Failed(t[i])

RestartConnected == <<"query", "down", "sleep", "up">>

\* C1: restart() whose state query reports connected does, in this order and
\* nothing else, one bring-down, one suspension of the configured delay and one
\* bring-up; each effect starts only when the one before it has completed (so
\* the bring-up never precedes the bring-down or the end of the delay), the
\* restart that returns has done all of them, and it stops short only on a
\* failure of the external tool.
C1_RestartWhenConnected ==
    (call.method = "restart" /\ FirstQueryReports("connected")) =>
        /\ IsPrefix(Ops(trace), RestartConnected)
        /\ OnlyLastMayFail(trace)
        /\ \A i \in 1..Len(trace) :
              trace[i].op = "sleep" => trace[i].dur = DEFAULT_RESTART_DELAY_SECONDS
        /\ ReturnedNormally => Ops(trace) = RestartConnected
        /\ (Finished /\ exc.type # "None") =>
              /\ exc.type = "CalledProcessError"
              /\ Last(trace).rc = exc.returncode

C1_Witness ==
    /\ call.method = "restart"
    /\ FirstQueryReports("connected")
    /\ ReturnedNormally
    /\ Ops(trace) = RestartConnected
    /\ active

\* C2: restart() whose state query reports not connected does exactly one
\* thing after the query, a single bring-up: no bring-down, no delay.
C2_RestartWhenDisconnected ==
    (call.method = "restart" /\ FirstQueryReports("disconnected")) =>
        /\ IsPrefix(Ops(trace), <<"query", "up">>)
        /\ \A i \in 1..Len(trace) : trace[i].op \notin {"down", "sleep"}
        /\ Finished => Ops(trace) = <<"query", "up">>

C2_Witness ==
    /\ call.method = "restart"
    /\ FirstQueryReports("disconnected")
    /\ ReturnedNormally
    /\ Ops(trace) = <<"query", "up">>

\* what a gated or ungated connect/disconnect may do, `command` being "up"
\* for connect and "down" for disconnect, and `skip` the answer of the state
\* query on which the command is not issued
GatedCommand(command, skip) ==
    IF call.flag
    THEN /\ IsPrefix(Ops(trace), <<"query", command>>)
         /\ FirstQueryReports(skip) => Ops(trace) = <<"query">>
         /\ (Len(trace) >= 1 /\ Failed(trace[1])) => Ops(trace) = <<"query">>
         /\ (Finished /\ ~FirstQueryReports(skip) /\ ~Failed(trace[1])) =>
                Ops(trace) = <<"query", command>>
    ELSE /\ IsPrefix(Ops(trace), <<command>>)
         /\ Finished => Ops(trace) = <<command>>

\* C6: connect(only_if_disconnected=True) issues no bring-up when the state
\* query reports connected and exactly one otherwise; disconnect(
\* only_if_connected=True) issues no bring-down when the query reports not
\* connected and exactly one otherwise; with the flag false each issues its
\* command once, unconditionally, and makes no state query.
C6_GatedConnectDisconnect ==
    /\ call.method = "connect" => GatedCommand("up", "connected")
    /\ call.method = "disconnect" => GatedCommand("down", "disconnected")

C6_Witness ==
    /\ call.method = "connect"
    /\ call.flag
    /\ Finished
    /\ FirstQueryReports("connected")
    /\ Ops(trace) = <<"query">>
    /\ prev.method = "connect"
    /\ ~prev.flag
    /\ prev.ok

\* the positions where connect, disconnect and restart decide on the
\* connection state
DecisionPoints == {"connect_test", "disconnect_test", "restart_test"}

\* C10: no cached connection state: wherever connect(True), disconnect(True)
\* or restart() decides on the connection state, the last thing the object did
\* to the manager, within this same invocation, is a state query that
\* succeeded, and the value decided on is that query's answer, which is the
\* manager's state at that moment.
C10_NoCachedState ==
    pc \in DecisionPoints =>
        /\ Len(trace) >= 1
        /\ Last(trace).op = "query"
        /\ Last(trace).rc = 0
        /\ Last(trace).val = StateWord(connected)
        /\ connected = active

\* a second invocation decides the opposite of what the first one was told
C10_Witness ==
    /\ pc = "disconnect_test"
    /\ connected
    /\ nCalls = 2
    /\ prev.method = "connect"
    /\ prev.flag
    /\ prev.ok

\* text s holds text p
Contains(s, p) ==
    \E i \in 1..(Len(s) - Len(p) + 1) : SubSeq(s, i, i + Len(p) - 1) = p

\* C4: set_remote_address(x) followed by get_remote_address() returns x, for
\* any x that holds neither " = " nor ", ", whatever else the dictionary holds
\* (stated for the runs in which nmcli itself does not fail).
C4_RoundTrip ==
    ( /\ Finished
      /\ call.method = "get_remote_address"
      /\ prev.method = "set_remote_address"
      /\ prev.ok
      /\ ~Contains(prev.address, PairSep)
      /\ ~Contains(prev.address, EntrySep)
      /\ \A i \in 1..Len(trace) : ~Failed(trace[i]) )
    => (exc.type = "None" /\ retText = prev.address)

----------------------------------------------------------------------------
(* Properties of the command (Spec) *)

Exited == pc = "exited"

\* what the process did to the connection manager, and the sleep
ManagerOps == SelectSeq(Ops(trace), LAMBDA op : op \in ToolOps \cup {"sleep"})

IsInvalidMessage(e) == e.op = "print" /\ e.val = "invalid"

\* how many times "Invalid server number" was printed
InvalidMessages == Len(SelectSeq(trace, IsInvalidMessage))

\* C3: in every run of the command, a Controller step (state query,
\* bring-down, bring-up, set-data) at which nmcli exits with a non-zero code c
\* makes c the exit status of the program, and the exit status is 0 only when
\* no invocation of nmcli failed.
C3_ExitStatusIsToolExitCode ==
    Exited =>
        /\ \A i \in 1..Len(trace) :
              (trace[i].op \in ToolOps /\ trace[i].rc # 0) => exitStatus = trace[i].rc
        /\ exitStatus = 0 =>
              \A i \in 1..Len(trace) : trace[i].op \in ToolOps => trace[i].rc = 0

\* the bring-up of a restart fails with code 10 after the bring-down succeeded
C3_Witness ==
    /\ Exited
    /\ exitStatus = 10
    /\ ManagerOps = <<"mod", "query", "down", "sleep", "up">>
    /\ Last(trace).op = "up"
    /\ Last(trace).rc = 10

\* the line is an integer n with 1 <= n <= len(servers)
ValidChoice(line) ==
    /\ PyInt(line).ok
    /\ 1 <= PyInt(line).n
    /\ PyInt(line).n <= Len(servers)

\* C5: in get_chosen_server over a non-empty list, every line that is not an
\* integer or whose n - 1 is outside [0, len(servers)) produces exactly one
\* error message, right after it is read, and leaves the loop running; the
\* loop ends at the first line that is an integer n with 1 <= n <=
\* len(servers), and returns the record at position n - 1, the one displayed
\* with Number n. However many invalid lines came, the loop still prompts.
C5_PromptForSelection ==
    /\ pc = "get_chosen_server" =>
          /\ servers # <<>>
          /\ \A i \in 1..Len(lines) : ~ValidChoice(lines[i])
          /\ InvalidMessages = Len(lines)
    /\ \A i \in 1..Len(trace) :
          IsInvalidMessage(trace[i]) =>
              i > 1 /\ trace[i - 1].op = "input" /\ ~Failed(trace[i - 1])
    /\ \A i \in 1..(Len(lines) - 1) : ~ValidChoice(lines[i])
    /\ (lines # <<>> /\ ValidChoice(Last(lines))) =>
          LET n == PyInt(Last(lines)).n
          IN  /\ pc # "get_chosen_server"
              /\ InvalidMessages = Len(lines) - 1
              /\ server = servers[n]
              /\ displayed[n + 1].number = Ljust(Str(n), first_column_width)
              /\ Strip(displayed[n + 1].location) = server.location
              /\ displayed[n + 1].address = server.address
    /\ (lines # <<>> /\ pc # "get_chosen_server" /\ exc.type # "EOFError") =>
          ValidChoice(Last(lines))

\* "abc", "0", "5" and then "2" against two servers
C5_Witness ==
    /\ Len(servers) = 2
    /\ lines = <<<<"a", "b", "c">>, <<"0">>, <<"5">>, <<"2">>>>
    /\ InvalidMessages = 3
    /\ server = servers[2]
    /\ pc = "main_address"

\* the selected action ran to its end
Completed ==
    CASE MainBranch(args) = "disconnect" ->
            ManagerOps \in {<<"query">>, <<"query", "down">>}
      [] MainBranch(args) = "list" ->
            /\ Len(trace) >= 3
            /\ SubSeq(Ops(trace), Len(trace) - 2, Len(trace)) = <<"fetch", "parse", "print">>
            /\ displayed # <<>>
      [] OTHER ->
            /\ ManagerOps \in {<<"mod", "query", "up">>,
                               <<"mod", "query", "down", "sleep", "up">>}
            /\ active
            /\ KeyIndex(vpnData, REMOTE) # 0
            /\ vpnData[KeyIndex(vpnData, REMOTE)][2] = chosen
            /\ args.verbose => (Last(trace).op = "print" /\ Last(trace).val = "connected")

C8_ListOnly ==
    (args.list /\ ~args.disconnect) =>
        /\ ManagerOps = <<>>
        /\ active = mgr0.active
        /\ vpnData = mgr0.vpnData
        /\ chosen = NoText
        /\ (Exited /\ exitStatus = 0) => (displayed = ServersTable(servers) /\ servers # <<>>)

\* -l together with -u ADDRESS
C8_Witness ==
    /\ args.list
    /\ ~args.disconnect
    /\ args.url # None
    /\ Exited
    /\ exitStatus = 0
    /\ Len(displayed) = 3

\* every row of the page has the two cells
TwoCellRows(page) == \A i \in 1..Len(page.rows) : Len(page.rows[i]) >= 2

\* get_servers_list returned a list
Fetched == \E i \in 1..Len(trace) : trace[i].op = "parse" /\ ~Failed(trace[i])

\* C9: get_servers_list returns a list only when the GET succeeded with a
\* success response and the page has a table whose rows all have the two
\* cells; a transport failure or a non-success response is a failure of the
\* fetch, a page without table or a row without two cells a failure of the
\* parse, and then no list is returned and the run ends; a list returned has
\* one record per row, in row order.
C9_FetchServerList ==
    /\ Fetched =>
          /\ response.transport = "ok"
          /\ response.status = HTTP_OK
          /\ response.page.table
          /\ TwoCellRows(response.page)
          /\ Len(servers) = Len(response.page.rows)
          /\ \A i \in 1..Len(servers) : servers[i] = ServerOf(response.page.rows[i])
    /\ ( /\ response # NoResponse
         /\ \/ response.transport # "ok"
            \/ response.status # HTTP_OK
            \/ ~response.page.table
            \/ ~TwoCellRows(response.page) )
       => /\ servers = <<>>
          /\ Failed(Last(trace))
          /\ pc \in {"raised", "exited"}
          /\ Exited => exitStatus # 0

====
